---- MODULE Spec2Model ----
(***************************************************************************)
(* Model of the TLS session key store (tls_crypto_t): cipher suite list,   *)
(* cipher suite selection, master secret / key block derivation and the    *)
(* hand-over of the derived primitives to the record layer.                *)
(*                                                                         *)
(* Primitive instances live in a heap (a sequence of instance records);    *)
(* a pointer is an index into the heap and NULL is 0.  Key material is     *)
(* symbolic: a chunk is a window [buf, off, len] onto a PRF output stream, *)
(* and a PRF output stream is named by the PRF construction, its key, the  *)
(* label and the seed.                                                     *)
(***************************************************************************)
EXTENDS Integers, Sequences, FiniteSets, TLC

(* ---- bounds of the model ---- *)
MaxPeer == 2        \* longest peer-offered suite list
MaxFail == 1        \* most algorithms the registry refuses in one call
MaxInst == 8        \* most primitive instances ever constructed
MaxMacs == 3        \* longest MAC enumeration of a registry
MaxEncrs == 2       \* longest crypter enumeration of a registry
MaxChild == 2       \* Child SA instances of one connection
MaxSpi == 3         \* SPIs the allocator can hand out

(* ---- cipher suite identifiers and protocol versions ---- *)
TLS_RSA_WITH_NULL_MD5 == 1
TLS_RSA_WITH_NULL_SHA == 2
TLS_RSA_WITH_NULL_SHA256 == 59
TLS_RSA_WITH_AES_128_CBC_SHA == 47
TLS_RSA_WITH_AES_256_CBC_SHA == 53
TLS_RSA_WITH_3DES_EDE_CBC_SHA == 10
TLS_RSA_WITH_AES_128_CBC_SHA256 == 60
TLS_1_1 == 770
TLS_1_2 == 771

NULL == 0

Versions == {TLS_1_1, TLS_1_2}

(* a suite identifier a peer may offer that has no catalog entry *)
UnknownSuite == 4

(* ---- suite catalog ---- *)
suite_algs ==
  << [suite |-> TLS_RSA_WITH_NULL_MD5, hash |-> "HASH_MD5",
      prf |-> "PRF_HMAC_MD5", mac |-> "AUTH_HMAC_MD5_128",
      encr |-> "ENCR_NULL", encr_size |-> 0],
     [suite |-> TLS_RSA_WITH_NULL_SHA, hash |-> "HASH_SHA1",
      prf |-> "PRF_HMAC_SHA1", mac |-> "AUTH_HMAC_SHA1_160",
      encr |-> "ENCR_NULL", encr_size |-> 0],
     [suite |-> TLS_RSA_WITH_NULL_SHA256, hash |-> "HASH_SHA256",
      prf |-> "PRF_HMAC_SHA2_256", mac |-> "AUTH_HMAC_SHA2_256_256",
      encr |-> "ENCR_NULL", encr_size |-> 0],
     [suite |-> TLS_RSA_WITH_AES_128_CBC_SHA, hash |-> "HASH_SHA1",
      prf |-> "PRF_HMAC_SHA1", mac |-> "AUTH_HMAC_SHA1_160",
      encr |-> "ENCR_AES_CBC", encr_size |-> 16],
     [suite |-> TLS_RSA_WITH_AES_256_CBC_SHA, hash |-> "HASH_SHA1",
      prf |-> "PRF_HMAC_SHA1", mac |-> "AUTH_HMAC_SHA1_160",
      encr |-> "ENCR_AES_CBC", encr_size |-> 32],
     [suite |-> TLS_RSA_WITH_3DES_EDE_CBC_SHA, hash |-> "HASH_SHA1",
      prf |-> "PRF_HMAC_SHA1", mac |-> "AUTH_HMAC_SHA1_160",
      encr |-> "ENCR_3DES", encr_size |-> 0],
     [suite |-> TLS_RSA_WITH_AES_128_CBC_SHA256, hash |-> "HASH_SHA256",
      prf |-> "PRF_HMAC_SHA2_256", mac |-> "AUTH_HMAC_SHA2_256_256",
      encr |-> "ENCR_AES_CBC", encr_size |-> 16] >>

CatalogSuites == { suite_algs[i].suite : i \in 1..Len(suite_algs) }

(* index of the first catalog entry of a suite, 0 (NULL) if there is none *)
find_suite(suite) ==
  LET hits == { i \in 1..Len(suite_algs) : suite_algs[i].suite = suite }
  IN  IF hits = {} THEN NULL
      ELSE CHOOSE i \in hits : \A k \in hits : i <= k

(* ---- the algorithm registry ---- *)
MacIds == {"AUTH_HMAC_SHA1_160", "AUTH_HMAC_SHA2_256_256",
           "AUTH_HMAC_MD5_128", "AUTH_AES_XCBC_96"}
EncrIds == {"ENCR_AES_CBC", "ENCR_3DES", "ENCR_BLOWFISH"}
PrfIds == {"PRF_HMAC_MD5", "PRF_HMAC_SHA1", "PRF_HMAC_SHA2_256"}

(* the algorithms the registry may enumerate and yet refuse to instantiate *)
Refusable == {"PRF_HMAC_SHA1", "AUTH_HMAC_SHA2_256_256", "ENCR_AES_CBC"}

RECURSIVE SeqsUpTo(_, _)
SeqsUpTo(S, n) ==
  IF n = 0 THEN { <<>> }
  ELSE LET shorter == SeqsUpTo(S, n - 1)
       IN  shorter \cup
           { Append(s, x) : s \in { t \in shorter : Len(t) = n - 1 },
                            x \in S }

(* registries the store is built on: enumeration orders of the MACs and
   crypters, and the algorithms the registry refuses to instantiate *)
Enumerations ==
  { [macs |-> << "AUTH_HMAC_SHA1_160", "AUTH_HMAC_SHA2_256_256",
                 "AUTH_HMAC_MD5_128" >>,
     encrs |-> << "ENCR_AES_CBC", "ENCR_3DES" >>],
    [macs |-> << "AUTH_AES_XCBC_96", "AUTH_HMAC_SHA2_256_256" >>,
     encrs |-> << "ENCR_BLOWFISH", "ENCR_AES_CBC" >>] }
Offered == CatalogSuites \cup {UnknownSuite}
PeerLists == SeqsUpTo(Offered, MaxPeer)     \* a peer's hello: a suite list
SingleOffers == SeqsUpTo(Offered, 1)        \* a peer's choice: one suite
Refusals == { r \in SUBSET Refusable : Cardinality(r) <= MaxFail }

(* ---- build_cipher_suite_list ---- *)

(* suites one crypter of the enumeration adds for a MAC *)
EncrCase(encr, mac) ==
  CASE encr = "ENCR_AES_CBC" ->
         ( CASE mac = "AUTH_HMAC_SHA1_160" ->
                  << TLS_RSA_WITH_AES_128_CBC_SHA,
                     TLS_RSA_WITH_AES_256_CBC_SHA >>
             [] mac = "AUTH_HMAC_SHA2_256_256" ->
                  << TLS_RSA_WITH_AES_128_CBC_SHA256,
                     TLS_RSA_WITH_AES_128_CBC_SHA256 >>
             [] OTHER -> << >> )
    [] encr = "ENCR_3DES" ->
         ( CASE mac = "AUTH_HMAC_SHA1_160" ->
                  << TLS_RSA_WITH_3DES_EDE_CBC_SHA >>
             [] OTHER -> << >> )
    [] OTHER -> << >>

(* the NULL-encryption suite a MAC adds *)
MacCase(mac) ==
  CASE mac = "AUTH_HMAC_SHA1_160" -> << TLS_RSA_WITH_NULL_SHA >>
    [] mac = "AUTH_HMAC_SHA2_256_256" -> << TLS_RSA_WITH_NULL_SHA256 >>
    [] mac = "AUTH_HMAC_MD5_128" -> << TLS_RSA_WITH_NULL_MD5 >>
    [] OTHER -> << >>

RECURSIVE EncrLoop(_, _, _)
EncrLoop(encrs, k, mac) ==
  IF k > Len(encrs) THEN << >>
  ELSE EncrCase(encrs[k], mac) \o EncrLoop(encrs, k + 1, mac)

RECURSIVE MacLoop(_, _, _)
MacLoop(macs, encrs, k) ==
  IF k > Len(macs) THEN << >>
  ELSE MacCase(macs[k]) \o EncrLoop(encrs, 1, macs[k])
         \o MacLoop(macs, encrs, k + 1)

(* a copy loop that never finds a match *)
KeepDuplicates(supported, i, unique) == supported

RECURSIVE RemoveDuplicates(_, _, _)
RemoveDuplicates(supported, i, unique) ==
  IF i > Len(supported) THEN unique
  ELSE LET match == \E j \in 1..Len(unique) : supported[i] = unique[j]
       IN  RemoveDuplicates(supported, i + 1,
             IF match THEN unique ELSE Append(unique, supported[i]))

build_cipher_suite_list(macs, encrs) ==
  RemoveDuplicates(MacLoop(macs, encrs, 1), 1, << >>)

(* ---- chunks and symbolic key material ---- *)

(* A chunk is a window of len bytes at offset off of the byte stream desc;
   desc is a sequence of strings naming the stream, << >> for a NULL ptr. *)
chunk_empty == [desc |-> << >>, off |-> 0, len |-> 0]

chunk_create(desc, off, len) == [desc |-> desc, off |-> off, len |-> len]

chunk_skip(chunk, bytes) ==
  IF chunk.len > bytes
  THEN [desc |-> chunk.desc, off |-> chunk.off + bytes,
        len |-> chunk.len - bytes]
  ELSE chunk_empty

(* seed = chunk_cata("cc", a, b) *)
chunk_cata(a, b) == << a, b >>

(* the bytes a chunk holds, as the name of a key *)
KeyOf(chunk) == chunk.desc \o << ToString(chunk.off), ToString(chunk.len) >>

Zeroes(len) == [desc |-> << "zero" >>, off |-> 0, len |-> len]

(* ---- primitive instances ---- *)

signer_key_size(mac) ==
  CASE mac = "AUTH_HMAC_MD5_128" -> 16
    [] mac = "AUTH_HMAC_SHA1_160" -> 20
    [] mac = "AUTH_HMAC_SHA2_256_256" -> 32

crypter_key_size(encr, size) ==
  IF encr = "ENCR_3DES" THEN 24 ELSE size

crypter_block_size(encr) ==
  IF encr = "ENCR_3DES" THEN 8 ELSE 16

NewInst(kind, alg, ks, bs) ==
  [kind |-> kind, alg |-> alg, key_size |-> ks, block_size |-> bs,
   key |-> << >>, alive |-> TRUE]

(* constructors give << >> for a NULL result, << instance >> otherwise *)
tls_prf_create_10(refused) ==
  IF "PRF_HMAC_MD5" \in refused \/ "PRF_HMAC_SHA1" \in refused THEN << >>
  ELSE << NewInst("prf10", "PRF_MD5_SHA1", 0, 0) >>

tls_prf_create_12(prf, refused) ==
  IF prf \in refused THEN << >>
  ELSE << NewInst("prf12", prf, 0, 0) >>

create_signer(mac, refused) ==
  IF mac \in refused THEN << >>
  ELSE << NewInst("signer", mac, signer_key_size(mac), 0) >>

create_crypter(encr, size, refused) ==
  IF encr \in refused THEN << >>
  ELSE << NewInst("crypter", encr, crypter_key_size(encr, size),
                  crypter_block_size(encr)) >>

(* pointer to the instance a constructor put last on the heap *)
PtrOf(made, h) == IF made = << >> THEN NULL ELSE Len(h)

DESTROY_IF(h, ptr) ==
  IF ptr = NULL THEN h ELSE [h EXCEPT ![ptr].alive = FALSE]

(* ---- create_ciphers ---- *)

(* crypters left out by the catalog key size instead of the algorithm *)
CreateCryptersByKeySize(st, h, refused, algs) ==
  LET ci == create_crypter(algs.encr, algs.encr_size, refused)
      co == create_crypter(algs.encr, algs.encr_size, refused)
      h6 == DESTROY_IF(DESTROY_IF(h, st.crypter_in), st.crypter_out)
  IN
  IF algs.encr_size = 0
  THEN [ok |-> TRUE,
        st |-> [st EXCEPT !.crypter_in = NULL, !.crypter_out = NULL],
        heap |-> h6]
  ELSE [ok |-> ci # << >> /\ co # << >>,
        st |-> [st EXCEPT !.crypter_in = PtrOf(ci, h6 \o ci),
                          !.crypter_out = PtrOf(co, h6 \o ci \o co)],
        heap |-> h6 \o ci \o co]

(* the crypters: destroy the old pair, none for ENCR_NULL, else both *)
CreateCrypters(st, h, refused, algs) ==
  LET ci == create_crypter(algs.encr, algs.encr_size, refused)
      co == create_crypter(algs.encr, algs.encr_size, refused)
      h6 == DESTROY_IF(DESTROY_IF(h, st.crypter_in), st.crypter_out)
  IN
  IF algs.encr = "ENCR_NULL"
  THEN [ok |-> TRUE,
        st |-> [st EXCEPT !.crypter_in = NULL, !.crypter_out = NULL],
        heap |-> h6]
  ELSE [ok |-> ci # << >> /\ co # << >>,
        st |-> [st EXCEPT !.crypter_in = PtrOf(ci, h6 \o ci),
                          !.crypter_out = PtrOf(co, h6 \o ci \o co)],
        heap |-> h6 \o ci \o co]

(* the signers: destroy the old pair, create both, fail if one is NULL *)
CreateSigners(st, h, refused, algs) ==
  LET si == create_signer(algs.mac, refused)
      so == create_signer(algs.mac, refused)
      h3 == DESTROY_IF(DESTROY_IF(h, st.signer_in), st.signer_out)
      st5 == [st EXCEPT !.signer_in = PtrOf(si, h3 \o si),
                        !.signer_out = PtrOf(so, h3 \o si \o so)]
  IN
  IF si = << >> \/ so = << >>
  THEN [ok |-> FALSE, st |-> st5, heap |-> h3 \o si \o so]
  ELSE CreateCrypters(st5, h3 \o si \o so, refused, algs)

(* a PRF chosen by the suite alone *)
CreatePrfBySuite(st, version, h, refused, algs) ==
  LET prf == tls_prf_create_12(algs.prf, refused)
      h2 == DESTROY_IF(h, st.prf) \o prf
  IN
  IF prf = << >>
  THEN [ok |-> FALSE, st |-> [st EXCEPT !.prf = NULL], heap |-> h2]
  ELSE CreateSigners([st EXCEPT !.prf = Len(h2)], h2, refused, algs)

(* the PRF: destroy the old one, create the one of the version *)
CreatePrf(st, version, h, refused, algs) ==
  LET prf == IF version < TLS_1_2 THEN tls_prf_create_10(refused)
             ELSE tls_prf_create_12(algs.prf, refused)
      h2 == DESTROY_IF(h, st.prf) \o prf
  IN
  IF prf = << >>
  THEN [ok |-> FALSE, st |-> [st EXCEPT !.prf = NULL], heap |-> h2]
  ELSE CreateSigners([st EXCEPT !.prf = Len(h2)], h2, refused, algs)

create_ciphers(st, version, h, refused, suite) ==
  IF find_suite(suite) = NULL
  THEN [ok |-> FALSE, st |-> st, heap |-> h]
  ELSE CreatePrf(st, version, h, refused, suite_algs[find_suite(suite)])

(* ---- select_cipher_suite ---- *)

(* a loop that gives up at the first candidate that cannot be constructed *)
RECURSIVE SelectLoopFailFast(_, _, _, _, _, _, _, _)
SelectLoopFailFast(st, version, h, refused, suites, i, j, tried) ==
  IF i > st.suite_count
  THEN [ret |-> 0, st |-> st, heap |-> h, tried |-> tried]
  ELSE IF j > Len(suites)
  THEN SelectLoopFailFast(st, version, h, refused, suites, i + 1, 1, tried)
  ELSE IF st.suites[i] = suites[j]
  THEN LET r == create_ciphers(st, version, h, refused, st.suites[i]) IN
       IF r.ok
       THEN [ret |-> st.suites[i],
             st |-> [r.st EXCEPT !.suite = st.suites[i]],
             heap |-> r.heap,
             tried |-> Append(tried, st.suites[i])]
       ELSE [ret |-> 0, st |-> r.st, heap |-> r.heap,
             tried |-> Append(tried, st.suites[i])]
  ELSE SelectLoopFailFast(st, version, h, refused, suites, i, j + 1, tried)

(* a loop that falls back to the first local suite when nothing matches *)
RECURSIVE SelectLoopFallback(_, _, _, _, _, _, _, _)
SelectLoopFallback(st, version, h, refused, suites, i, j, tried) ==
  IF i > st.suite_count
  THEN IF st.suite_count = 0 \/ tried # << >>
       THEN [ret |-> 0, st |-> st, heap |-> h, tried |-> tried]
       ELSE LET r == create_ciphers(st, version, h, refused, st.suites[1]) IN
            [ret |-> IF r.ok THEN st.suites[1] ELSE 0,
             st |-> IF r.ok THEN [r.st EXCEPT !.suite = st.suites[1]]
                    ELSE r.st,
             heap |-> r.heap, tried |-> << st.suites[1] >>]
  ELSE IF j > Len(suites)
  THEN SelectLoopFallback(st, version, h, refused, suites, i + 1, 1, tried)
  ELSE IF st.suites[i] = suites[j]
  THEN LET r == create_ciphers(st, version, h, refused, st.suites[i]) IN
       IF r.ok
       THEN [ret |-> st.suites[i],
             st |-> [r.st EXCEPT !.suite = st.suites[i]],
             heap |-> r.heap,
             tried |-> Append(tried, st.suites[i])]
       ELSE SelectLoopFallback(r.st, version, r.heap, refused, suites, i,
                               j + 1, Append(tried, st.suites[i]))
  ELSE SelectLoopFallback(st, version, h, refused, suites, i, j + 1, tried)

(* a loop that walks the peer's list outside and the local list inside *)
RECURSIVE PeerOrderLoop(_, _, _, _, _, _, _, _)
PeerOrderLoop(st, version, h, refused, suites, i, j, tried) ==
  IF j > Len(suites)
  THEN [ret |-> 0, st |-> st, heap |-> h, tried |-> tried]
  ELSE IF i > st.suite_count
  THEN PeerOrderLoop(st, version, h, refused, suites, 1, j + 1, tried)
  ELSE IF st.suites[i] = suites[j]
  THEN LET r == create_ciphers(st, version, h, refused, st.suites[i]) IN
       IF r.ok
       THEN [ret |-> st.suites[i],
             st |-> [r.st EXCEPT !.suite = st.suites[i]],
             heap |-> r.heap,
             tried |-> Append(tried, st.suites[i])]
       ELSE PeerOrderLoop(r.st, version, r.heap, refused, suites, i + 1, j,
                          Append(tried, st.suites[i]))
  ELSE PeerOrderLoop(st, version, h, refused, suites, i + 1, j, tried)

select_cipher_suite_peer_order(st, version, h, refused, suites) ==
  PeerOrderLoop(st, version, h, refused, suites, 1, 1, << >>)

RECURSIVE SelectLoop(_, _, _, _, _, _, _, _)
SelectLoop(st, version, h, refused, suites, i, j, tried) ==
  IF i > st.suite_count
  THEN [ret |-> 0, st |-> st, heap |-> h, tried |-> tried]
  ELSE IF j > Len(suites)
  THEN SelectLoop(st, version, h, refused, suites, i + 1, 1, tried)
  ELSE IF st.suites[i] = suites[j]
  THEN LET r == create_ciphers(st, version, h, refused, st.suites[i]) IN
       IF r.ok
       THEN [ret |-> st.suites[i],
             st |-> [r.st EXCEPT !.suite = st.suites[i]],
             heap |-> r.heap,
             tried |-> Append(tried, st.suites[i])]
       ELSE SelectLoop(r.st, version, r.heap, refused, suites, i, j + 1,
                       Append(tried, st.suites[i]))
  ELSE SelectLoop(st, version, h, refused, suites, i, j + 1, tried)

select_cipher_suite(st, version, h, refused, suites) ==
  SelectLoop(st, version, h, refused, suites, 1, 1, << >>)

(* ---- derive_master_secret ---- *)

Premasters == {"pm1", "pm2"}
ClientRandoms == {"cr1"}
ServerRandoms == {"sr1"}

PremasterChunk(name) == [desc |-> << "premaster", name >>, off |-> 0, len |-> 48]

(* prf->get_bytes(prf, label, seed, len, buf): the bytes written to buf *)
get_bytes(inst, label, seed, len) ==
  [desc |-> << inst.kind, inst.alg, label >> \o seed \o inst.key,
   off |-> 0, len |-> len]

set_key(h, ptr, chunk) == [h EXCEPT ![ptr].key = KeyOf(chunk)]

(* a cut that takes the slice and forgets to skip it in the block *)
CutSliceNoSkip(block, len) ==
  [slice |-> chunk_create(block.desc, block.off, len), rest |-> block]

(* x_write = chunk_create(block.ptr, len); block = chunk_skip(block, len) *)
CutSlice(block, len) ==
  [slice |-> chunk_create(block.desc, block.off, len),
   rest |-> chunk_skip(block, len)]

(* one cut of the key block: the chunk and the field it is bound to *)
Slice(name, chunk, to) ==
  [name |-> name, off |-> chunk.off, len |-> chunk.len, null |-> chunk.desc = << >>,
   to |-> to]

(* the six directional bindings, IF is_server as in the three branches *)
SignerTargets(is_server) ==
  IF is_server THEN [client |-> "signer_in", server |-> "signer_out"]
  ELSE [client |-> "signer_out", server |-> "signer_in"]

CrypterTargets(is_server) ==
  IF is_server THEN [client |-> "crypter_in", server |-> "crypter_out"]
  ELSE [client |-> "crypter_out", server |-> "crypter_in"]

(* the IV branch with its role test inverted *)
IvTargetsInverted(is_server) ==
  IF ~is_server THEN [client |-> "iv_in", server |-> "iv_out"]
  ELSE [client |-> "iv_out", server |-> "iv_in"]

IvTargets(is_server) ==
  IF is_server THEN [client |-> "iv_in", server |-> "iv_out"]
  ELSE [client |-> "iv_out", server |-> "iv_in"]

Ptr(st, field) ==
  CASE field = "signer_in" -> st.signer_in
    [] field = "signer_out" -> st.signer_out
    [] field = "crypter_in" -> st.crypter_in
    [] field = "crypter_out" -> st.crypter_out

NoDerive ==
  [crashed |-> TRUE, st |-> << >>, heap |-> << >>, master |-> chunk_empty,
   block |-> chunk_empty, block_len |-> 0, rest |-> chunk_empty,
   slices |-> << >>]

(* a key block whose IV length is taken for TLS 1.2 as well *)
KeyBlockLenAnyVersion(st, version, h) ==
  LET mks == h[st.signer_out].key_size
      eks == IF st.crypter_out # NULL THEN h[st.crypter_out].key_size ELSE 0
      ivs == IF st.crypter_out # NULL /\ version <= TLS_1_2
             THEN h[st.crypter_out].block_size ELSE 0
  IN  [mks |-> mks, eks |-> eks, ivs |-> ivs, len |-> (mks + eks + ivs) * 2]

(* length of the key block asked of the PRF, (mks + eks + ivs) * 2 *)
KeyBlockLen(st, version, h) ==
  LET mks == h[st.signer_out].key_size
      eks == IF st.crypter_out # NULL THEN h[st.crypter_out].key_size ELSE 0
      ivs == IF st.crypter_out # NULL /\ version < TLS_1_2
             THEN h[st.crypter_out].block_size ELSE 0
  IN  [mks |-> mks, eks |-> eks, ivs |-> ivs, len |-> (mks + eks + ivs) * 2]

(* the master secret derivation: PRF keyed with premaster, then re-keyed
   with the master secret, and the master array zeroed *)
MasterSecret(h, prf, premaster, client_random, server_random) ==
  LET seed == chunk_cata(client_random, server_random)
      master == get_bytes(set_key(h, prf, premaster)[prf], "master secret",
                          seed, 48)
  IN  [heap |-> set_key(h, prf, master), after |-> Zeroes(48)]

(* a key expansion that reuses the seed order of the master secret *)
KeyExpansionSameSeed(h, prf, client_random, server_random, len) ==
  get_bytes(h[prf], "key expansion",
            chunk_cata(client_random, server_random), len)

(* the key expansion: PRF output of block length over the reversed seed *)
KeyExpansion(h, prf, client_random, server_random, len) ==
  get_bytes(h[prf], "key expansion",
            chunk_cata(server_random, client_random), len)

(* signer keys: two slices of mks bytes, bound by role *)
DeriveSignerKeys(d, is_server, mks) ==
  LET c == CutSlice(d.rest, mks)
      s == CutSlice(c.rest, mks)
      to == SignerTargets(is_server)
  IN  [d EXCEPT
         !.heap = set_key(set_key(d.heap, Ptr(d.st, to.client), c.slice),
                          Ptr(d.st, to.server), s.slice),
         !.rest = s.rest,
         !.slices = @ \o << Slice("client_mac", c.slice, to.client),
                            Slice("server_mac", s.slice, to.server) >>]

(* the IVs: two slices of ivs bytes, cloned into iv_in and iv_out by role *)
DeriveIvs(d, is_server, ivs) ==
  LET c == CutSlice(d.rest, ivs)
      s == CutSlice(c.rest, ivs)
      to == IvTargets(is_server)
  IN  IF ivs = 0 THEN d
      ELSE [d EXCEPT
              !.st = [d.st EXCEPT
                        !.iv_in = IF to.client = "iv_in" THEN c.slice
                                  ELSE s.slice,
                        !.iv_out = IF to.client = "iv_out" THEN c.slice
                                   ELSE s.slice],
              !.rest = s.rest,
              !.slices = @ \o << Slice("client_iv", c.slice, to.client),
                                 Slice("server_iv", s.slice, to.server) >>]

(* crypter keys: two slices of eks bytes, bound by role, then the IVs *)
DeriveCrypterKeys(d, is_server, eks, ivs) ==
  LET c == CutSlice(d.rest, eks)
      s == CutSlice(c.rest, eks)
      to == CrypterTargets(is_server)
  IN  IF d.st.crypter_out # NULL /\ d.st.crypter_in # NULL
      THEN DeriveIvs(
             [d EXCEPT
                !.heap = set_key(set_key(d.heap, Ptr(d.st, to.client),
                                         c.slice),
                                 Ptr(d.st, to.server), s.slice),
                !.rest = s.rest,
                !.slices = @ \o << Slice("client_enc", c.slice, to.client),
                                   Slice("server_enc", s.slice, to.server) >>],
             is_server, ivs)
      ELSE d

(* the key block of the re-keyed PRF and its slicing *)
DeriveKeyBlock(st, tlsr, h, master, client_random, server_random, kb) ==
  DeriveCrypterKeys(
    DeriveSignerKeys(
      [crashed |-> FALSE, st |-> st, heap |-> h, master |-> master,
       block |-> KeyExpansion(h, st.prf, client_random, server_random,
                              kb.len),
       block_len |-> kb.len,
       rest |-> KeyExpansion(h, st.prf, client_random, server_random,
                             kb.len),
       slices |-> << >>],
      tlsr.is_server, kb.mks),
    tlsr.is_server, kb.eks, kb.ivs)

derive_master_secret(st, tlsr, h, premaster, client_random, server_random) ==
  IF st.prf = NULL \/ st.signer_out = NULL \/ st.signer_in = NULL
  THEN NoDerive
  ELSE
    LET ms == MasterSecret(h, st.prf, premaster, client_random, server_random)
    IN  DeriveKeyBlock(st, tlsr, ms.heap, ms.after, client_random,
                       server_random, KeyBlockLen(st, tlsr.version, ms.heap))

(* ---- change_cipher ---- *)
(* a hand-over that activates both directions whatever the argument *)
change_cipher_both(st, tlsr, inbound) ==
  [tlsr EXCEPT !.in = [signer |-> st.signer_in,
                       crypter |-> st.crypter_in, iv |-> st.iv_in],
               !.out = [signer |-> st.signer_out,
                        crypter |-> st.crypter_out, iv |-> st.iv_out]]

change_cipher(st, tlsr, inbound) ==
  IF inbound
  THEN [tlsr EXCEPT !.in = [signer |-> st.signer_in,
                            crypter |-> st.crypter_in, iv |-> st.iv_in]]
  ELSE [tlsr EXCEPT !.out = [signer |-> st.signer_out,
                             crypter |-> st.crypter_out, iv |-> st.iv_out]]

(* ---- tls_crypto_create ---- *)
tls_crypto_create(macs, encrs) ==
  LET list == build_cipher_suite_list(macs, encrs) IN
  [suites |-> list, suite_count |-> Len(list), suite |-> 0,
   prf |-> NULL, signer_in |-> NULL, signer_out |-> NULL,
   crypter_in |-> NULL, crypter_out |-> NULL,
   iv_in |-> chunk_empty, iv_out |-> chunk_empty]

(* ---- state ---- *)
VARIABLES
  this,       \* the store, private_tls_crypto_t
  tls,        \* the TLS context: version, role, record layer protection
  heap,       \* every primitive instance constructed so far
  registry,   \* the registry: enumerations and refused algorithms
  mem,        \* caller and stack buffers as the last derivation left them
  call,       \* the last public call: arguments, result, what it did
  crashed,    \* a NULL instance was dereferenced
  remote,     \* the store at the other end of the connection, if modelled
  child       \* the Child SAs of a connection and the kernel state they own

vars == << this, tls, heap, registry, mem, call, crashed, remote, child >>

(* the variables of the session key store *)
tlsvars == << this, tls, heap, registry, mem, call, crashed, remote >>

(* no Child SA is modelled *)
NoChildren == << >>

NoProtection == [signer |-> NULL, crypter |-> NULL, iv |-> chunk_empty]

NoCall ==
  [op |-> "create", suites |-> << >>, ret |-> 0,
   tried |-> << >>, inbound |-> FALSE, again |-> FALSE,
   premaster |-> "", client_random |-> "", server_random |-> "",
   block_len |-> 0, rest_len |-> 0, slices |-> << >>]

NoMem == [premaster |-> chunk_empty, master |-> chunk_empty,
          block |-> chunk_empty]

Registries ==
  { [macs |-> e.macs, encrs |-> e.encrs, refused |-> r] :
      e \in Enumerations, r \in Refusals }

Contexts(roles) ==
  [version : Versions, is_server : roles,
   in : {NoProtection}, out : {NoProtection}]

Init ==
  /\ registry \in Registries
  /\ this = tls_crypto_create(registry.macs, registry.encrs)
  /\ tls \in Contexts(BOOLEAN)
  /\ heap = << >>
  /\ mem = NoMem
  /\ call = NoCall
  /\ crashed = FALSE
  /\ remote = << >>
  /\ child = NoChildren

(* what a select_cipher_suite call leaves in the call record *)
SelectCall(suites, r) ==
  [NoCall EXCEPT !.op = "select", !.suites = suites, !.ret = r.ret,
                 !.tried = r.tried]

DeriveCall(premaster, client_random, server_random, r) ==
  LET c == [NoCall EXCEPT !.op = "derive", !.premaster = premaster,
                          !.client_random = client_random,
                          !.server_random = server_random]
  IN  IF r.crashed THEN c
      ELSE [c EXCEPT !.block_len = r.block_len, !.rest_len = r.rest.len,
                     !.slices = r.slices]

DeriveMem(premaster, r) ==
  [premaster |-> PremasterChunk(premaster), master |-> r.master,
   block |-> r.block]

Select(suites) ==
  /\ ~crashed
  /\ Len(heap) < MaxInst
  /\ LET r == select_cipher_suite(this, tls.version, heap, registry.refused,
                                  suites) IN
     /\ Len(r.heap) <= MaxInst
     /\ this' = r.st
     /\ heap' = r.heap
     /\ call' = SelectCall(suites, r)
  /\ UNCHANGED << tls, registry, mem, crashed, remote, child >>

Derive(premaster, client_random, server_random) ==
  /\ ~crashed
  /\ LET r == derive_master_secret(this, tls, heap, PremasterChunk(premaster),
                                   client_random, server_random)
     IN
     /\ call' = DeriveCall(premaster, client_random, server_random, r)
     /\ IF r.crashed
        THEN /\ crashed' = TRUE
             /\ UNCHANGED << this, heap, mem >>
        ELSE /\ this' = r.st
             /\ heap' = r.heap
             /\ mem' = DeriveMem(premaster, r)
             /\ UNCHANGED crashed
  /\ UNCHANGED << tls, registry, remote, child >>

ChangeCipher(inbound) ==
  /\ ~crashed
  /\ tls' = change_cipher(this, tls, inbound)
  /\ call' = [NoCall EXCEPT !.op = "change_cipher", !.inbound = inbound,
                             !.again = (call.op = "change_cipher"
                                        /\ call.inbound = inbound)]
  /\ UNCHANGED << this, heap, registry, mem, crashed, remote, child >>

(* one store through its life: a peer's choice, derivations, activations *)
Next ==
  \/ \E suites \in SingleOffers : Select(suites)
  \/ \E p \in Premasters, cr \in ClientRandoms, sr \in ServerRandoms :
       Derive(p, cr, sr)
  \/ \E inbound \in BOOLEAN : ChangeCipher(inbound)

Spec == Init /\ [][Next]_vars

(* negotiation and renegotiation against a peer's suite list *)
NextNeg == \E suites \in PeerLists : Select(suites)

SpecNeg == Init /\ [][NextNeg]_vars

(* ---- the construction of a store on any registry ---- *)

(* every enumeration of at most MaxMacs signers and MaxEncrs crypters *)
ListRegistries ==
  { [macs |-> m, encrs |-> e, refused |-> {}] :
      m \in SeqsUpTo(MacIds, MaxMacs), e \in SeqsUpTo(EncrIds, MaxEncrs) }

(* the zeroed object INIT allocates, before the suite list is built *)
NoStore ==
  [suites |-> << >>, suite_count |-> 0, suite |-> 0,
   prf |-> NULL, signer_in |-> NULL, signer_out |-> NULL,
   crypter_in |-> NULL, crypter_out |-> NULL,
   iv_in |-> chunk_empty, iv_out |-> chunk_empty]

InitList ==
  /\ registry \in ListRegistries
  /\ this = NoStore
  /\ tls \in Contexts({FALSE})
  /\ heap = << >>
  /\ mem = NoMem
  /\ call = [NoCall EXCEPT !.op = "none"]
  /\ crashed = FALSE
  /\ remote = << >>
  /\ child = NoChildren

Create ==
  /\ call.op = "none"
  /\ this' = tls_crypto_create(registry.macs, registry.encrs)
  /\ call' = NoCall
  /\ UNCHANGED << tls, heap, registry, mem, crashed, remote, child >>

NextList == Create

SpecList == InitList /\ [][NextList]_vars

(* ---- a client store and a server store side by side ---- *)

(* the suites the two ends may settle on *)
PairOffers ==
  SeqsUpTo({TLS_RSA_WITH_NULL_SHA256, TLS_RSA_WITH_AES_128_CBC_SHA256,
            TLS_RSA_WITH_3DES_EDE_CBC_SHA}, 1)

InitPair ==
  /\ registry \in { r \in Registries : r.refused = {} }
  /\ this = tls_crypto_create(registry.macs, registry.encrs)
  /\ tls \in Contexts({FALSE})
  /\ heap = << >>
  /\ mem = NoMem
  /\ call = NoCall
  /\ crashed = FALSE
  /\ remote \in [this : {this}, tls : Contexts({TRUE}), heap : {<< >>},
                 mem : {NoMem}, call : {NoCall}, crashed : {FALSE}]
  /\ child = NoChildren

RemoteSelect(suites) ==
  /\ ~remote.crashed
  /\ Len(remote.heap) < MaxInst
  /\ LET r == select_cipher_suite(remote.this, remote.tls.version,
                                  remote.heap, registry.refused, suites) IN
     /\ Len(r.heap) <= MaxInst
     /\ remote' = [remote EXCEPT !.this = r.st, !.heap = r.heap,
                                 !.call = SelectCall(suites, r)]
  /\ UNCHANGED << this, tls, heap, registry, mem, call, crashed, child >>

RemoteDerive(premaster, client_random, server_random) ==
  /\ ~remote.crashed
  /\ LET r == derive_master_secret(remote.this, remote.tls, remote.heap,
                                   PremasterChunk(premaster),
                                   client_random, server_random)
         c == DeriveCall(premaster, client_random, server_random, r)
     IN
     remote' = IF r.crashed
               THEN [remote EXCEPT !.crashed = TRUE, !.call = c]
               ELSE [remote EXCEPT !.this = r.st, !.heap = r.heap,
                                   !.mem = DeriveMem(premaster, r),
                                   !.call = c]
  /\ UNCHANGED << this, tls, heap, registry, mem, call, crashed, child >>

NextPair ==
  \/ \E suites \in PairOffers : Select(suites)
  \/ \E suites \in PairOffers : RemoteSelect(suites)
  \/ \E p \in Premasters, cr \in ClientRandoms, sr \in ServerRandoms :
       Derive(p, cr, sr)
  \/ \E p \in Premasters, cr \in ClientRandoms, sr \in ServerRandoms :
       RemoteDerive(p, cr, sr)

SpecPair == InitPair /\ [][NextPair]_vars

(* ---- Child SA (child_sa_t) ---- *)
(* The interface is child_sa.h; the bodies follow the lifecycle
   unallocated -> spis_allocated -> installed -> policy_bound ->
   rekeyed | destroyed of the design.  A Child SA is a record, the kernel
   holds the SPIs, SAs and policies that are installed. *)

ChildIds == 1..MaxChild
Proposals == { {"ESP"}, {"AH", "ESP"} }      \* the protocols of a proposal
Selectors == {"ts1"}                         \* traffic selector lists

(* child_sa_create: reqid unique, nothing allocated or installed *)
child_sa_create(reqid) ==
  [reqid |-> reqid, spis |-> {}, installed |-> {}, policies |-> {},
   rekeyed |-> 0, destroyed |-> FALSE]

NoKernel == [next_spi |-> 1, spis |-> {}, sas |-> {}, policies |-> {}]

ChildState(sa) ==
  CASE sa.destroyed -> "destroyed"
    [] sa.rekeyed # 0 -> "rekeyed"
    [] sa.policies # {} -> "policy_bound"
    [] sa.installed # {} -> "installed"
    [] sa.spis # {} -> "spis_allocated"
    [] OTHER -> "unallocated"

(* the last call: operation, instance, status, and for a destroy the
   policies the instance held when it was destroyed *)
Ret(c, op, id, status) ==
  [c EXCEPT !.ret = [op |-> op, id |-> id, status |-> status, held |-> {}]]

(* the SPI allocator: one fresh inbound SPI per protocol of the proposal *)
FreshSpis(kernel, proposal) ==
  IF "AH" \in proposal
  THEN { [protocol |-> "AH", spi |-> kernel.next_spi],
         [protocol |-> "ESP", spi |-> kernel.next_spi + 1] }
  ELSE { [protocol |-> "ESP", spi |-> kernel.next_spi] }

Exhausted(kernel, proposal) ==
  kernel.next_spi + Cardinality(proposal) - 1 > MaxSpi

(* the SPIs recorded in the SA and taken from the allocator *)
WithSpis(c, i, proposal) ==
  [c EXCEPT !.sa[i].spis = FreshSpis(c.kernel, proposal),
            !.kernel.spis = @ \cup { s.spi : s \in
                                       FreshSpis(c.kernel, proposal) },
            !.kernel.next_spi = @ + Cardinality(proposal)]

(* kernel SAs of both directions for every protocol of the proposal *)
WithSas(c, i, proposal) ==
  [c EXCEPT !.sa[i].installed = proposal,
            !.kernel.sas = @ \cup
               { [reqid |-> c.sa[i].reqid, protocol |-> p, inbound |-> d] :
                   p \in proposal, d \in BOOLEAN }]

child_alloc(c, i, proposal, spi_ok) ==
  IF ChildState(c.sa[i]) # "unallocated" \/ ~spi_ok
       \/ Exhausted(c.kernel, proposal)
  THEN Ret(c, "alloc", i, "SpiAllocationFailed")
  ELSE Ret(WithSpis(c, i, proposal), "alloc", i, "SUCCESS")

child_add(c, i, proposal, spi_ok, install_ok) ==
  CASE ChildState(c.sa[i]) \notin {"unallocated", "spis_allocated"} ->
         Ret(c, "add", i, "SaInstallFailed")
    [] ChildState(c.sa[i]) = "unallocated"
         /\ (~spi_ok \/ Exhausted(c.kernel, proposal)) ->
         Ret(c, "add", i, "SpiAllocationFailed")
    [] OTHER ->
         IF ~install_ok
              \/ ~(proposal \subseteq
                     { s.protocol : s \in
                         IF c.sa[i].spis # {} THEN c.sa[i].spis
                         ELSE FreshSpis(c.kernel, proposal) })
         THEN Ret(c, "add", i, "SaInstallFailed")
         ELSE Ret(WithSas(IF c.sa[i].spis # {} THEN c
                          ELSE WithSpis(c, i, proposal), i, proposal),
                  "add", i, "SUCCESS")

(* an update that installs without looking for an earlier alloc *)
child_update_unchecked(c, i, proposal, install_ok) ==
  IF ~install_ok
  THEN Ret(c, "update", i, "SaInstallFailed")
  ELSE Ret(WithSas(c, i, proposal), "update", i, "SUCCESS")

child_update(c, i, proposal, install_ok) ==
  CASE ChildState(c.sa[i]) # "spis_allocated"
         \/ ~(proposal \subseteq { s.protocol : s \in c.sa[i].spis }) ->
         Ret(c, "update", i, "NoPriorAllocation")
    [] ~install_ok -> Ret(c, "update", i, "SaInstallFailed")
    [] OTHER -> Ret(WithSas(c, i, proposal), "update", i, "SUCCESS")

child_add_policies(c, i, ts, policy_ok) ==
  CASE ChildState(c.sa[i]) \notin {"installed", "policy_bound"} ->
         Ret(c, "add_policies", i, "PolicyInstallFailed")
    [] ts \in c.sa[i].policies -> Ret(c, "add_policies", i, "SUCCESS")
    [] ~policy_ok -> Ret(c, "add_policies", i, "PolicyInstallFailed")
    [] OTHER ->
         Ret([c EXCEPT !.sa[i].policies = @ \cup {ts},
                       !.kernel.policies = @ \cup {ts}],
             "add_policies", i, "SUCCESS")

child_set_rekeyed(c, i, reqid) ==
  Ret([c EXCEPT !.sa[i].rekeyed = reqid], "set_rekeyed", i, "SUCCESS")

(* a destroy that removes the policies whether rekeyed or not *)
child_destroy_always(c, i) ==
  IF c.sa[i].destroyed THEN Ret(c, "destroy", i, "SUCCESS")
  ELSE [c EXCEPT
              !.sa[i].destroyed = TRUE,
              !.sa[i].spis = {},
              !.sa[i].installed = {},
              !.sa[i].policies = {},
              !.kernel.sas = { k \in @ : k.reqid # c.sa[i].reqid },
              !.kernel.spis = @ \ { s.spi : s \in c.sa[i].spis },
              !.kernel.policies = @ \ c.sa[i].policies,
              !.ret = [op |-> "destroy", id |-> i, status |-> "SUCCESS",
                       held |-> c.sa[i].policies]]

child_destroy(c, i) ==
  IF c.sa[i].destroyed THEN Ret(c, "destroy", i, "SUCCESS")
  ELSE [c EXCEPT
              !.sa[i].destroyed = TRUE,
              !.sa[i].spis = {},
              !.sa[i].installed = {},
              !.sa[i].policies = {},
              !.kernel.sas = { k \in @ : k.reqid # c.sa[i].reqid },
              !.kernel.spis = @ \ { s.spi : s \in c.sa[i].spis },
              !.kernel.policies = IF c.sa[i].rekeyed # 0 THEN @
                                  ELSE @ \ c.sa[i].policies,
              !.ret = [op |-> "destroy", id |-> i, status |-> "SUCCESS",
                       held |-> c.sa[i].policies]]

InitChild ==
  /\ registry = [macs |-> << >>, encrs |-> << >>, refused |-> {}]
  /\ this = NoStore
  /\ tls = [version |-> TLS_1_2, is_server |-> FALSE,
            in |-> NoProtection, out |-> NoProtection]
  /\ heap = << >>
  /\ mem = NoMem
  /\ call = [NoCall EXCEPT !.op = "none"]
  /\ crashed = FALSE
  /\ remote = << >>
  /\ child = [sa |-> [i \in ChildIds |-> child_sa_create(i)],
              kernel |-> NoKernel,
              ret |-> [op |-> "create", id |-> 0, status |-> "SUCCESS",
                       held |-> {}]]

Alive(i) == ~child.sa[i].destroyed

Alloc(i, proposal, spi_ok) ==
  /\ Alive(i)
  /\ child' = child_alloc(child, i, proposal, spi_ok)
  /\ UNCHANGED tlsvars

Add(i, proposal, spi_ok, install_ok) ==
  /\ Alive(i)
  /\ child' = child_add(child, i, proposal, spi_ok, install_ok)
  /\ UNCHANGED tlsvars

Update(i, proposal, install_ok) ==
  /\ Alive(i)
  /\ child' = child_update(child, i, proposal, install_ok)
  /\ UNCHANGED tlsvars

AddPolicies(i, ts, policy_ok) ==
  /\ Alive(i)
  /\ child' = child_add_policies(child, i, ts, policy_ok)
  /\ UNCHANGED tlsvars

SetRekeyed(i, successor) ==
  /\ Alive(i)
  /\ successor # i
  /\ ChildState(child.sa[i]) \in {"installed", "policy_bound"}
  /\ child' = child_set_rekeyed(child, i, child.sa[successor].reqid)
  /\ UNCHANGED tlsvars

Destroy(i) ==
  /\ child' = child_destroy(child, i)
  /\ UNCHANGED tlsvars

NextChild ==
  \/ \E i \in ChildIds, p \in Proposals, ok \in BOOLEAN : Alloc(i, p, ok)
  \/ \E i \in ChildIds, p \in Proposals, ok1, ok2 \in BOOLEAN :
       Add(i, p, ok1, ok2)
  \/ \E i \in ChildIds, p \in Proposals, ok \in BOOLEAN : Update(i, p, ok)
  \/ \E i \in ChildIds, ts \in Selectors, ok \in BOOLEAN :
       AddPolicies(i, ts, ok)
  \/ \E i, j \in ChildIds : SetRekeyed(i, j)
  \/ \E i \in ChildIds : Destroy(i)

SpecChild == InitChild /\ [][NextChild]_vars

(* ======================= negotiation ======================= *)

Range(seq) == { seq[k] : k \in 1..Len(seq) }

(* the registry can construct every primitive the suite needs *)
Constructible(suite) ==
  /\ find_suite(suite) # NULL
  /\ LET algs == suite_algs[find_suite(suite)] IN
     /\ IF tls.version < TLS_1_2
        THEN registry.refused \cap {"PRF_HMAC_MD5", "PRF_HMAC_SHA1"} = {}
        ELSE algs.prf \notin registry.refused
     /\ algs.mac \notin registry.refused
     /\ algs.encr = "ENCR_NULL" \/ algs.encr \notin registry.refused

(* positions of the local list whose suite the peer offers and the registry
   can construct *)
Acceptable(offered) ==
  { i \in 1..Len(this.suites) :
      this.suites[i] \in offered /\ Constructible(this.suites[i]) }

FirstAcceptable(offered) ==
  IF Acceptable(offered) = {} THEN 0
  ELSE this.suites[CHOOSE i \in Acceptable(offered) :
                     \A k \in Acceptable(offered) : i <= k]

PositionOf(suite) == CHOOSE i \in 1..Len(this.suites) : this.suites[i] = suite

(* C1: select_cipher_suite returns the first suite of the local list, in
   local order, that the peer offers and whose primitives can be
   constructed; the result depends on the set of suites the peer offers,
   not on the order the peer lists them in. *)
C1_LocalPreference ==
  call.op = "select" =>
    /\ call.ret = FirstAcceptable(Range(call.suites))
    /\ call.ret # 0 => this.suite = call.ret

(* local [.., B, .., C, ..] and peer [C, B] gave B *)
C1_Witness ==
  /\ call.op = "select"
  /\ Len(call.suites) = 2
  /\ call.suites[1] \in Range(this.suites)
  /\ call.suites[2] \in Range(this.suites)
  /\ PositionOf(call.suites[2]) < PositionOf(call.suites[1])
  /\ Constructible(call.suites[1])
  /\ call.ret = call.suites[2]

(* C7: a matching suite whose primitives cannot be constructed does not end
   the selection: every candidate tried before the last one matched and
   failed, candidates are tried in local order, the call returns 0 only if
   no offered local suite can be constructed, and it stops at the first
   candidate that is constructed. *)
C7_ContinueAfterFailure ==
  call.op = "select" =>
    /\ \A k \in 1..Len(call.tried) :
         /\ call.tried[k] \in Range(call.suites) \cap Range(this.suites)
         /\ k < Len(call.tried) => ~Constructible(call.tried[k])
         /\ k < Len(call.tried) =>
              PositionOf(call.tried[k]) <= PositionOf(call.tried[k + 1])
    /\ call.ret = 0 <=> Acceptable(Range(call.suites)) = {}
    /\ call.ret # 0 =>
         /\ call.tried # << >>
         /\ call.tried[Len(call.tried)] = call.ret
         /\ Constructible(call.ret)
    /\ call.ret = 0 => \A k \in 1..Len(call.tried) :
                          ~Constructible(call.tried[k])

(* a candidate was refused and a later one was selected *)
C7_Witness ==
  /\ call.op = "select"
  /\ Len(call.tried) >= 2
  /\ ~Constructible(call.tried[1])
  /\ call.ret # 0
  /\ call.ret # call.tried[1]

(* C8: a call whose peer list shares no suite with the local list returns
   0, constructs no instance and leaves the store as it was. *)
C8_NoMatchNoConstruct ==
  [][ (call'.op = "select"
       /\ Range(call'.suites) \cap Range(this.suites) = {})
      => (call'.ret = 0 /\ this' = this /\ heap' = heap) ]_vars

(* a peer that offered only catalog suites the store does not list *)
C8_Witness ==
  /\ call.op = "select"
  /\ call.suites # << >>
  /\ Range(call.suites) \subseteq CatalogSuites
  /\ Range(call.suites) \cap Range(this.suites) = {}
  /\ call.ret = 0
  /\ heap = << >>

(* the pointers a store holds *)
StorePtrs(st) ==
  { st.prf, st.signer_in, st.signer_out, st.crypter_in, st.crypter_out }
    \ { NULL }

(* the store holds exactly the live primitives of the suite it records,
   none of them older than the heap length before *)
HoldsSuite(st, h, before) ==
  /\ find_suite(st.suite) # NULL
  /\ LET algs == suite_algs[find_suite(st.suite)] IN
     /\ \A ptr \in StorePtrs(st) : ptr > before /\ h[ptr].alive
     /\ st.prf # NULL
     /\ h[st.prf].kind = IF tls.version < TLS_1_2 THEN "prf10" ELSE "prf12"
     /\ tls.version >= TLS_1_2 => h[st.prf].alg = algs.prf
     /\ st.signer_in # NULL /\ h[st.signer_in].alg = algs.mac
     /\ st.signer_out # NULL /\ h[st.signer_out].alg = algs.mac
     /\ IF algs.encr = "ENCR_NULL"
        THEN st.crypter_in = NULL /\ st.crypter_out = NULL
        ELSE /\ st.crypter_in # NULL /\ h[st.crypter_in].alg = algs.encr
             /\ st.crypter_out # NULL /\ h[st.crypter_out].alg = algs.encr

(* C9: a select_cipher_suite call on a store that holds a negotiated suite
   leaves either the previous suite with its untouched primitives, or the
   newly selected suite with primitives that all belong to it. *)
C9_WholesaleReplace ==
  [][ (call'.op = "select" /\ this.suite # 0)
      => \/ this' = this /\ heap' = heap
         \/ /\ call'.ret # 0
            /\ this'.suite = call'.ret
            /\ HoldsSuite(this', heap', Len(heap)) ]_vars

(* ======================= derivation ======================= *)

Derived == call.op = "derive" /\ ~crashed

(* the key the PRF holds after the master secret derivation of the call *)
MasterKeyOf(prf) ==
  << prf.kind, prf.alg, "master secret",
     call.client_random, call.server_random,
     "premaster", call.premaster, "0", "48", "0", "48" >>

(* the stream the key block of the call is read from *)
KeyBlockOf(prf) ==
  << prf.kind, prf.alg, "key expansion",
     call.server_random, call.client_random >> \o MasterKeyOf(prf)

HasSlice(name) == \E k \in 1..Len(call.slices) : call.slices[k].name = name

SliceNamed(name) ==
  call.slices[CHOOSE k \in 1..Len(call.slices) : call.slices[k].name = name]

(* the bytes of the key block a slice covers, as the name of a key *)
KeyAt(sl) == mem.block.desc \o << ToString(sl.off), ToString(sl.len) >>

(* the key material a field of the store holds *)
Holds(field) ==
  CASE field = "signer_in" -> heap[this.signer_in].key
    [] field = "signer_out" -> heap[this.signer_out].key
    [] field = "crypter_in" -> heap[this.crypter_in].key
    [] field = "crypter_out" -> heap[this.crypter_out].key
    [] field = "iv_in" -> KeyOf(this.iv_in)
    [] field = "iv_out" -> KeyOf(this.iv_out)

SliceKinds ==
  { [client |-> "client_mac", server |-> "server_mac",
     inb |-> "signer_in", outb |-> "signer_out"],
    [client |-> "client_enc", server |-> "server_enc",
     inb |-> "crypter_in", outb |-> "crypter_out"],
    [client |-> "client_iv", server |-> "server_iv",
     inb |-> "iv_in", outb |-> "iv_out"] }

(* C2: after derive_master_secret, for the MAC keys, the encryption keys
   and the IVs alike, a server holds the client-write slice inbound and the
   server-write slice outbound, and a client holds them the other way. *)
C2_RoleMapping ==
  Derived =>
    \A kind \in SliceKinds :
      HasSlice(kind.client) =>
        /\ HasSlice(kind.server)
        /\ Holds(kind.inb) =
             KeyAt(SliceNamed(IF tls.is_server THEN kind.client
                              ELSE kind.server))
        /\ Holds(kind.outb) =
             KeyAt(SliceNamed(IF tls.is_server THEN kind.server
                              ELSE kind.client))

(* a server that bound MAC keys, encryption keys and IVs *)
C2_Witness ==
  /\ Derived
  /\ tls.is_server
  /\ Len(call.slices) = 6
  /\ Holds("iv_in") # Holds("iv_out")

RECURSIVE SumLen(_, _)
SumLen(slices, k) ==
  IF k > Len(slices) THEN 0 ELSE slices[k].len + SumLen(slices, k + 1)

(* C4: the key block has length 2 * (mac_key_len + enc_key_len + iv_len),
   iv_len being 0 for TLS 1.2 and later or without a crypter; for a store
   holding the primitives of its suite these are the lengths of the catalog
   entry; the slices add up to the block, none reads past its end and
   nothing is left after the last one. *)
C4_KeyBlockLength ==
  Derived =>
    LET mks == heap[this.signer_out].key_size
        eks == IF this.crypter_out = NULL THEN 0
               ELSE heap[this.crypter_out].key_size
        ivs == IF tls.version >= TLS_1_2 \/ this.crypter_out = NULL THEN 0
               ELSE heap[this.crypter_out].block_size
    IN
    /\ call.block_len = 2 * (mks + eks + ivs)
    /\ mem.block.len = call.block_len
    /\ call.rest_len = 0
    /\ SumLen(call.slices, 1) = call.block_len
    /\ \A k \in 1..Len(call.slices) :
         /\ ~call.slices[k].null
         /\ call.slices[k].len > 0
         /\ call.slices[k].off + call.slices[k].len <= call.block_len
    /\ HoldsSuite(this, heap, 0) =>
         LET algs == suite_algs[find_suite(this.suite)] IN
         /\ mks = signer_key_size(algs.mac)
         /\ eks = IF algs.encr = "ENCR_NULL" THEN 0
                  ELSE crypter_key_size(algs.encr, algs.encr_size)
         /\ ivs = IF tls.version >= TLS_1_2 \/ algs.encr = "ENCR_NULL"
                  THEN 0 ELSE crypter_block_size(algs.encr)

(* a 3DES suite below TLS 1.2: 2 * (20 + 24 + 8) bytes *)
C4_Witness ==
  /\ Derived
  /\ HoldsSuite(this, heap, 0)
  /\ this.suite = TLS_RSA_WITH_3DES_EDE_CBC_SHA
  /\ tls.version < TLS_1_2
  /\ call.block_len = 104
  /\ Len(call.slices) = 6

SliceOrder ==
  << "client_mac", "server_mac", "client_enc", "server_enc",
     "client_iv", "server_iv" >>

(* C5: the key block is cut front to back into client MAC key, server MAC
   key, client encryption key, server encryption key, client IV, server
   IV, each slice starting where the one before ended, and each slice is
   what exactly one field of the store holds afterwards. *)
C5_SliceOrder ==
  Derived =>
    /\ Len(call.slices) \in {2, 4, 6}
    /\ \A k \in 1..Len(call.slices) :
         /\ call.slices[k].name = SliceOrder[k]
         /\ call.slices[k].off =
              IF k = 1 THEN 0
              ELSE call.slices[k - 1].off + call.slices[k - 1].len
         /\ Holds(call.slices[k].to) = KeyAt(call.slices[k])
         /\ \A m \in 1..Len(call.slices) :
              m # k =>
                /\ call.slices[m].to # call.slices[k].to
                /\ Holds(call.slices[m].to) # KeyAt(call.slices[k])
    /\ this.signer_in # this.signer_out
    /\ this.crypter_in # NULL => this.crypter_in # this.crypter_out

(* a client that cut all six slices *)
C5_Witness ==
  /\ Derived
  /\ ~tls.is_server
  /\ Len(call.slices) = 6
  /\ call.slices[6].off + call.slices[6].len = call.block_len

(* C6: the master secret is 48 bytes of the PRF keyed with the premaster
   secret over "master secret" and client_random ++ server_random; the key
   block is read from the PRF keyed with that master secret over
   "key expansion" and server_random ++ client_random. *)
C6_DerivationOrder ==
  Derived =>
    /\ heap[this.prf].key = MasterKeyOf(heap[this.prf])
    /\ mem.block.desc = KeyBlockOf(heap[this.prf])
    /\ mem.block.off = 0

(* a derivation that produced a key block *)
C6_Witness ==
  /\ Derived
  /\ call.client_random # call.server_random
  /\ mem.block.len > 0
  /\ heap[this.prf].kind = "prf12"

(* C10: when derive_master_secret returns, the premaster buffer it was
   given holds zeroes. *)
C10_PremasterZeroed ==
  Derived => mem.premaster = Zeroes(48)

(* ======================= client and server ======================= *)

(* both ends selected the same suite under the same version and their last
   call derived from the same premaster secret and randoms *)
SameDerivation ==
  /\ Derived
  /\ remote.call.op = "derive" /\ ~remote.crashed
  /\ ~tls.is_server /\ remote.tls.is_server
  /\ this.suite # 0 /\ this.suite = remote.this.suite
  /\ tls.version = remote.tls.version
  /\ call.premaster = remote.call.premaster
  /\ call.client_random = remote.call.client_random
  /\ call.server_random = remote.call.server_random

MacAndKeySymmetry ==
  /\ heap[this.signer_out].key = remote.heap[remote.this.signer_in].key
  /\ heap[this.signer_in].key = remote.heap[remote.this.signer_out].key
  /\ (this.crypter_out = NULL) = (remote.this.crypter_in = NULL)
  /\ this.crypter_out # NULL =>
       /\ heap[this.crypter_out].key =
            remote.heap[remote.this.crypter_in].key
       /\ heap[this.crypter_in].key =
            remote.heap[remote.this.crypter_out].key

(* C3: after the same derivation at both ends, what the client holds
   outbound is what the server holds inbound and the reverse: MAC keys,
   encryption keys and IVs. *)
C3_DirectionalSymmetry ==
  SameDerivation =>
    /\ MacAndKeySymmetry
    /\ this.iv_out = remote.this.iv_in
    /\ this.iv_in = remote.this.iv_out

(* ======================= secret buffers ======================= *)

(* C11: when derive_master_secret returns, its transient secret buffers hold
   no secret bytes: the master secret buffer is zeroed once the PRF is keyed
   with it and the raw key block is zeroed after the last slice was cut. *)
C11_TransientsZeroed ==
  Derived =>
    /\ mem.master = Zeroes(48)
    /\ mem.block = Zeroes(call.block_len)

(* ======================= integrity-only suites ======================= *)

(* the catalog entry of the suite the store records *)
AlgsOf(suite) == suite_algs[find_suite(suite)]

MacSlicesOnly ==
  /\ Len(call.slices) = 2
  /\ call.slices[1].name = "client_mac"
  /\ call.slices[2].name = "server_mac"

(* the claim as stated, by the encryption key size of the catalog entry *)
C12_ZeroKeySizeNoCrypter ==
  /\ (call.op = "select" /\ call.ret # 0) =>
       IF AlgsOf(call.ret).encr_size = 0
       THEN this.crypter_in = NULL /\ this.crypter_out = NULL
       ELSE this.crypter_in # NULL /\ this.crypter_out # NULL
  /\ (Derived /\ HoldsSuite(this, heap, 0)
        /\ AlgsOf(this.suite).encr_size = 0) => MacSlicesOnly

(* C12: for every catalog suite whose encryption algorithm is ENCR_NULL a
   successful select_cipher_suite leaves both crypters absent and a
   derivation then cuts and binds the two MAC keys only; for every other
   catalog suite both crypters are present after a successful selection and
   a derivation binds encryption keys as well. *)
C12_NullCipherNoCrypter ==
  /\ (call.op = "select" /\ call.ret # 0) =>
       IF AlgsOf(call.ret).encr = "ENCR_NULL"
       THEN this.crypter_in = NULL /\ this.crypter_out = NULL
       ELSE /\ this.crypter_in # NULL /\ heap[this.crypter_in].alive
            /\ this.crypter_out # NULL /\ heap[this.crypter_out].alive
  /\ (Derived /\ HoldsSuite(this, heap, 0)) =>
       IF AlgsOf(this.suite).encr = "ENCR_NULL"
       THEN MacSlicesOnly
       ELSE /\ Len(call.slices) >= 4
            /\ heap[this.crypter_in].key # << >>
            /\ heap[this.crypter_out].key # << >>

(* an integrity-only suite was selected and its two MAC keys derived *)
C12_Witness ==
  /\ Derived
  /\ HoldsSuite(this, heap, 0)
  /\ AlgsOf(this.suite).encr = "ENCR_NULL"
  /\ MacSlicesOnly
  /\ heap[this.signer_in].key # << >>

(* ======================= activation ======================= *)

(* C13: change_cipher changes neither the store nor its primitives and
   never the other direction of the record layer, and a second call for the
   same direction, with no select_cipher_suite or derive_master_secret in
   between, leaves the record layer as the first call left it. *)
C13_ChangeCipherIdempotent ==
  [][ call'.op = "change_cipher" =>
        /\ this' = this
        /\ heap' = heap
        /\ call'.inbound => tls'.out = tls.out
        /\ ~call'.inbound => tls'.in = tls.in
        /\ call'.again => tls' = tls ]_vars

(* inbound protection with an IV activated twice in a row, outbound never *)
C13_Witness ==
  /\ call.op = "change_cipher"
  /\ call.again
  /\ call.inbound
  /\ tls.in.signer = this.signer_in /\ tls.in.signer # NULL
  /\ tls.in.crypter = this.crypter_in /\ tls.in.crypter # NULL
  /\ tls.in.iv = this.iv_in /\ tls.in.iv # chunk_empty
  /\ tls.out = NoProtection

(* ======================= the suite list ======================= *)

(* position of the first occurrence of a suite in a sequence *)
FirstPos(seq, suite) ==
  CHOOSE i \in 1..Len(seq) :
    seq[i] = suite /\ \A k \in 1..(i - 1) : seq[k] # suite

(* the catalog suites a registry enables: the MAC is enumerated, and the
   crypter is unless the suite needs none *)
EnabledSuites(macs, encrs) ==
  { suite_algs[i].suite : i \in
      { k \in 1..Len(suite_algs) :
          /\ suite_algs[k].mac \in Range(macs)
          /\ \/ suite_algs[k].encr = "ENCR_NULL"
             \/ suite_algs[k].encr \in Range(encrs) } }

IsCatalogMac(mac) == \E i \in 1..Len(suite_algs) : suite_algs[i].mac = mac
IsCatalogEncr(encr) == \E i \in 1..Len(suite_algs) : suite_algs[i].encr = encr

(* C14: the suite list of a store holds no identifier twice, holds exactly
   the catalog suites the registry enables, in the order in which the
   enumeration loops first insert them, and is the list the registry gives
   without the algorithms that have no catalog entry. *)
C14_SuiteList ==
  call.op = "create" =>
    LET list == this.suites
        inserted == MacLoop(registry.macs, registry.encrs, 1)
    IN
    /\ this.suite_count = Len(list)
    /\ \A i, j \in 1..Len(list) : i # j => list[i] # list[j]
    /\ Range(list) \subseteq CatalogSuites
    /\ Range(list) = EnabledSuites(registry.macs, registry.encrs)
    /\ Range(list) = Range(inserted)
    /\ \A i, j \in 1..Len(list) :
         i < j => FirstPos(inserted, list[i]) < FirstPos(inserted, list[j])
    /\ list = build_cipher_suite_list(SelectSeq(registry.macs, IsCatalogMac),
                                      SelectSeq(registry.encrs, IsCatalogEncr))

(* a registry with algorithms of no suite and a suite inserted twice *)
C14_Witness ==
  /\ call.op = "create"
  /\ "AUTH_AES_XCBC_96" \in Range(registry.macs)
  /\ "ENCR_BLOWFISH" \in Range(registry.encrs)
  /\ this.suites = << TLS_RSA_WITH_NULL_SHA256,
                      TLS_RSA_WITH_AES_128_CBC_SHA256 >>
  /\ Len(MacLoop(registry.macs, registry.encrs, 1)) > this.suite_count

(* ======================= Child SA ======================= *)

ChildModelled == child # NoChildren

(* the kernel holds no SA and no SPI of the instance *)
Released(c, before, i) ==
  /\ \A k \in c.kernel.sas : k.reqid # before.sa[i].reqid
  /\ c.kernel.spis \cap { s.spi : s \in before.sa[i].spis } = {}
  /\ c.sa[i].spis = {} /\ c.sa[i].installed = {}

(* C15: destroying a Child SA releases its SPIs and kernel SAs; if it is
   marked rekeyed the installed policies stay, as the successor shares
   them, and if it is not (the successor, afterwards) its policies are
   removed. *)
C15_RekeyHandOff ==
  [][ \A i \in ChildIds :
        (child'.ret.op = "destroy" /\ child'.ret.id = i
           /\ ~child.sa[i].destroyed) =>
          /\ child'.sa[i].destroyed
          /\ Released(child', child, i)
          /\ IF child.sa[i].rekeyed # 0
             THEN child'.kernel.policies = child.kernel.policies
             ELSE child'.kernel.policies =
                    child.kernel.policies \ child.sa[i].policies ]_vars

(* the rekeyed SA was destroyed and the policy it shared with its successor
   is still installed *)
C15_Witness ==
  /\ ChildModelled
  /\ child.ret.op = "destroy"
  /\ child.ret.held # {}
  /\ \E i, j \in ChildIds :
       /\ child.ret.id = i
       /\ child.sa[i].destroyed
       /\ child.sa[i].rekeyed = child.sa[j].reqid
       /\ ~child.sa[j].destroyed
       /\ child.sa[j].rekeyed = 0
       /\ child.sa[j].policies = child.ret.held
       /\ child.kernel.policies = child.ret.held
       /\ \E k \in child.kernel.sas : k.reqid = child.sa[j].reqid

(* the instance would remove the policy when destroyed *)
ClaimsPolicy(i, ts) ==
  /\ ~child.sa[i].destroyed
  /\ ts \in child.sa[i].policies
  /\ child.sa[i].rekeyed = 0

(* C16: while a policy is installed and an instance that installed it is
   alive, exactly one instance claims it. *)
C16_OneOwner ==
  ChildModelled =>
    \A ts \in child.kernel.policies :
      (\E i \in ChildIds : ~child.sa[i].destroyed
                           /\ ts \in child.sa[i].policies)
        => Cardinality({ i \in ChildIds : ClaimsPolicy(i, ts) }) = 1

(* the calls of the set-up sequence that are out of order in a state *)
OutOfOrder(op, state) ==
  \/ op = "alloc" /\ state # "unallocated"
  \/ op = "add" /\ state \notin {"unallocated", "spis_allocated"}
  \/ op = "update" /\ state # "spis_allocated"
  \/ op = "add_policies" /\ state \notin {"installed", "policy_bound"}

(* C17: an update succeeds only on an instance whose SPIs an earlier alloc
   allocated, without one it fails with NoPriorAllocation, and every call
   of alloc, add, update and add_policies that is out of order fails and
   leaves the instances and the kernel as they were. *)
C17_OutOfOrderRejected ==
  [][ \A i \in ChildIds :
        child'.ret.id = i =>
          /\ (child'.ret.op = "update" /\ child'.ret.status = "SUCCESS") =>
               /\ ChildState(child.sa[i]) = "spis_allocated"
               /\ child'.sa[i].spis = child.sa[i].spis
               /\ child'.kernel.spis = child.kernel.spis
          /\ (child'.ret.op = "update"
                /\ ChildState(child.sa[i]) # "spis_allocated") =>
               child'.ret.status = "NoPriorAllocation"
          /\ OutOfOrder(child'.ret.op, ChildState(child.sa[i])) =>
               /\ child'.ret.status # "SUCCESS"
               /\ child'.sa = child.sa
               /\ child'.kernel = child.kernel ]_vars

(* an update on an instance that never allocated SPIs *)
C17_Witness ==
  /\ ChildModelled
  /\ child.ret.op = "update"
  /\ child.ret.status = "NoPriorAllocation"
  /\ ChildState(child.sa[child.ret.id]) = "unallocated"
  /\ child.kernel.spis = {}

(* ======================= the PRF and the version ======================= *)

(* the catalog entries whose MAC is the one of the signers the store holds *)
EntriesOfSigners ==
  { k \in 1..Len(suite_algs) :
      suite_algs[k].mac = heap[this.signer_out].alg }

(* C18: the PRF a derivation uses is the TLS 1.0/1.1 construction exactly
   when the version is below TLS 1.2 and otherwise the hash-based PRF of the
   suite the store's primitives were created for (the recorded suite, when
   the store holds its primitives); IVs are cut exactly by the same test,
   when there are crypters to cut them for. *)
C18_PrfByVersion ==
  Derived =>
    /\ heap[this.prf].kind =
         IF tls.version < TLS_1_2 THEN "prf10" ELSE "prf12"
    /\ heap[this.prf].kind = "prf12" =>
         /\ \E k \in EntriesOfSigners : heap[this.prf].alg = suite_algs[k].prf
         /\ HoldsSuite(this, heap, 0) =>
              heap[this.prf].alg = AlgsOf(this.suite).prf
    /\ HasSlice("client_iv") => heap[this.prf].kind = "prf10"
    /\ (heap[this.prf].kind = "prf10"
          /\ this.crypter_in # NULL /\ this.crypter_out # NULL) =>
         HasSlice("client_iv") /\ HasSlice("server_iv")

(* a TLS 1.2 derivation of an AES suite: the suite's PRF and no IVs *)
C18_Witness ==
  /\ Derived
  /\ tls.version = TLS_1_2
  /\ this.suite = TLS_RSA_WITH_AES_128_CBC_SHA256
  /\ HoldsSuite(this, heap, 0)
  /\ heap[this.prf].alg = "PRF_HMAC_SHA2_256"
  /\ Len(call.slices) = 4

(* ======================= renegotiation ======================= *)

(* the instances the record layer protects traffic with *)
RecordPtrs(tlsr) ==
  { tlsr.in.signer, tlsr.in.crypter, tlsr.out.signer, tlsr.out.crypter }
    \ { NULL }

(* C19: an instance the record layer uses for a direction, and still uses
   after the call, is neither destroyed nor given another key by the
   call. *)
C19_ActivePrimitivesKept ==
  [][ \A ptr \in RecordPtrs(tls) \cap RecordPtrs(tls') :
        heap'[ptr] = heap[ptr] ]_vars

(* the IVs the store holds are those of the latest key block, and only a
   suite with crypters below TLS 1.2 has any *)
FreshIvs ==
  IF this.iv_in = chunk_empty /\ this.iv_out = chunk_empty
  THEN ~HasSlice("client_iv")
  ELSE /\ this.crypter_in # NULL /\ this.crypter_out # NULL
       /\ tls.version < TLS_1_2
       /\ HasSlice("client_iv") /\ HasSlice("server_iv")
       /\ Holds("iv_in") = KeyAt(SliceNamed(IF tls.is_server
                                            THEN "client_iv"
                                            ELSE "server_iv"))
       /\ Holds("iv_out") = KeyAt(SliceNamed(IF tls.is_server
                                             THEN "server_iv"
                                             ELSE "client_iv"))

(* C20: after a derivation the store's IVs are empty unless the suite has
   crypters and the version is below TLS 1.2, and then they are the IV
   slices of the key block just derived; change_cipher never hands an IV to
   the record layer next to primitives that have no IV of their own. *)
C20_NoStaleIv ==
  /\ Derived => FreshIvs
  /\ call.op = "change_cipher" =>
       /\ tls.in.iv # chunk_empty =>
            tls.in.crypter # NULL /\ tls.version < TLS_1_2
       /\ tls.out.iv # chunk_empty =>
            tls.out.crypter # NULL /\ tls.version < TLS_1_2

(* ======================= derivation on a complete set ======================= *)

(* C21: no derive_master_secret ever uses an absent PRF or an absent
   signer, whether it is called before any select_cipher_suite or after one
   that returned no suite, and none sees exactly one of crypter_in and
   crypter_out present. *)
C21_DeriveOnCompleteSet ==
  /\ ~crashed
  /\ call.op = "derive" =>
       /\ this.prf # NULL /\ heap[this.prf].alive
       /\ this.signer_in # NULL /\ this.signer_out # NULL
       /\ (this.crypter_in = NULL) <=> (this.crypter_out = NULL)

====
